---- MODULE Spec2Model ----
(***************************************************************************)
(* Refuel planning engine of optimal-refuel-planner:                       *)
(*   planner/strategies/minimum_stops_strategy.py  (MinimumStopsStrategy)  *)
(*   planner/strategies/base_strategy.py           (BaseRefuelStrategy)    *)
(*   planner/services/planner_service.py           (PlannerService)        *)
(*   planner/models.py, cars/models.py             (persisted rows)        *)
(*                                                                         *)
(* Decimal quantities are fixed-point integers:                            *)
(*   distances and ranges   : 1/KmScale km                                 *)
(*   fuel quantities        : 1/LitersScale l                              *)
(*   prices                 : 1/PriceScale EUR per liter                   *)
(*   money                  : 1/MoneyScale EUR                             *)
(* Sums, differences and products are exact, as they are in the 28-digit   *)
(* Decimal context for the magnitudes a DecimalField admits; the one       *)
(* inexact Decimal operation, the division in Car.max_range_km, rounds     *)
(* half-to-even at the resolution of the model.                            *)
(***************************************************************************)
EXTENDS Integers, Sequences, FiniteSets, TLC

\* ---------------------------------------------------------------- bounds
MaxWaypoints == 4
MaxPlans == 2
MaxPriceInserts == 1

\* ----------------------------------------------------------------- units
\* Decimal distances carry three decimal places in the model
KmScale == 10^3
LitersScale == 100 * KmScale
\* FuelPrice.price_per_liter is a DecimalField(decimal_places=3)
PriceScale == 10^3
MoneyScale == LitersScale * PriceScale
\* one unit of a DecimalField(decimal_places=2) column, in model units
KmCenti == KmScale \div 100
LitersCenti == LitersScale \div 100
MoneyCenti == MoneyScale \div 100

\* ------------------------------------------------------- Decimal helpers
\* n / d rounded to the nearest integer, ties to the even neighbour
\* (decimal.ROUND_HALF_EVEN, the default context rounding), n >= 0, d > 0
RoundHalfEven(n, d) ==
    LET q == n \div d
        r == n % d
    IN  IF 2 * r < d THEN q
        ELSE IF 2 * r > d THEN q + 1
        ELSE IF q % 2 = 0 THEN q ELSE q + 1

\* n / d rounded to the nearest integer, ties away from zero: the rounding
\* PostgreSQL applies when a value is stored in a numeric(p, 2) column
RoundHalfUp(n, d) ==
    LET q == n \div d
        r == n % d
    IN  IF 2 * r < d THEN q ELSE q + 1

\* str.upper() on the country codes the model uses
Upper(code) ==
    CASE code = "pl" -> "PL"
      [] code = "de" -> "DE"
      [] code = "cz" -> "CZ"
      [] OTHER -> code

\* ---------------------------------------------------------------- inputs
NoneCode == "None"
NoneCoord == 0 - 999

FuelTypes == {"gasoline", "diesel"}

\* OptimizationStrategy choices; only MIN_STOPS is in STRATEGY_MAP
OptimizationStrategy == {"cheapest", "min_stops", "balanced"}

\* mutant: CHEAPEST is dispatched as well
STRATEGY_MAP_with_cheapest == {"min_stops", "cheapest"}

STRATEGY_MAP == {"min_stops"}

\* a DecimalField of an instance that was given no value (None)
NoneDecimal == 0 - 999

\* the truth value Python gives a Decimal or None: None and 0 are false
Truthy(v) == v # NoneDecimal /\ v # 0

\* Car rows: tank_capacity in liters, avg_consumption in l/100km.  Car.clean
\* wants both positive, but only a save() runs it: car "Z" is a row written
\* without it (QuerySet.update, bulk_create) or an unsaved Car instance, the
\* case max_range_km answers with Decimal("0"); "Y" and "X" are the same
\* with a zero and with a missing avg_consumption
Cars ==
    { [name |-> "A", fuel_type |-> "gasoline", tank_capacity |-> 3, avg_consumption |-> 10],
      [name |-> "B", fuel_type |-> "diesel",   tank_capacity |-> 2, avg_consumption |-> 6],
      [name |-> "Z", fuel_type |-> "gasoline", tank_capacity |-> 0, avg_consumption |-> 10],
      [name |-> "Y", fuel_type |-> "gasoline", tank_capacity |-> 3, avg_consumption |-> 0],
      [name |-> "X", fuel_type |-> "diesel", tank_capacity |-> 2, avg_consumption |-> NoneDecimal] }

\* mutant: only a missing or zero avg_consumption falls back, and to the
\* tank capacity taken as the range
max_range_km_no_fallback(c) ==
    IF Truthy(c.avg_consumption)
    THEN RoundHalfEven(c.tank_capacity * 100 * KmScale, c.avg_consumption)
    ELSE c.tank_capacity * 100 * KmScale

\* Car.max_range_km, in 1/KmScale km
max_range_km(c) ==
    IF Truthy(c.avg_consumption) /\ Truthy(c.tank_capacity)
    THEN RoundHalfEven(c.tank_capacity * 100 * KmScale, c.avg_consumption)
    ELSE 0

\* Country rows (code) and FuelPrice rows present before any request.
\* "CZ" has no Country row; "DE" has a Country row but no diesel price.
CountryRows == {"PL", "DE"}

FuelPriceRows ==
    { [id |-> 1, country |-> "PL", fuel_type |-> "gasoline", price_per_liter |-> 1455, scraped_at |-> 1],
      [id |-> 2, country |-> "PL", fuel_type |-> "gasoline", price_per_liter |-> 1497, scraped_at |-> 2],
      [id |-> 3, country |-> "DE", fuel_type |-> "gasoline", price_per_liter |-> 1702, scraped_at |-> 1],
      [id |-> 4, country |-> "PL", fuel_type |-> "diesel",   price_per_liter |-> 1388, scraped_at |-> 2] }

\* rows a concurrent writer (the price scraper) may insert
NewFuelPriceRows ==
    { [id |-> 10 + n, country |-> "PL", fuel_type |-> "gasoline", price_per_liter |-> 1511 + n, scraped_at |-> 2 + n]
        : n \in 1..MaxPriceInserts }

\* segment lengths between consecutive waypoints, in 1/KmScale km
SegmentLens == {0, 1, 10 * KmScale, 20 * KmScale}

\* reservoir_km values a caller of PlannerService may pass (whole km, an int);
\* the serializer admits 0..500, the service itself any int
Reservoirs == {0 - 10, 0, 10, 20, 30}

\* strategy names a request may carry
StrategyChoices == {"min_stops", "cheapest", "balanced"}

\* the (reservoir_km, strategy) pairs of the requests: every reservoir with
\* the implemented strategy, one reservoir with each of the others
Requests ==
    { [reservoir_km |-> r, strategy |-> "min_stops"] : r \in Reservoirs }
    \cup { [reservoir_km |-> 20, strategy |-> st] : st \in StrategyChoices \ {"min_stops"} }

RECURSIVE Cumulative(_, _)
\* sum of the first k segment lengths
Cumulative(segs, k) == IF k = 0 THEN 0 ELSE Cumulative(segs, k - 1) + segs[k]

\* country tagging patterns of the route processor: the first waypoint is in
\* "first", the waypoints from index `border` (0-based) on are in "rest"
CountryAt(pattern, idx) == IF idx < pattern.border THEN pattern.first ELSE pattern.rest

\* coordinates by position: absent, zero and non-zero values all occur
LatAt(idx) == CASE idx % 3 = 0 -> 52 [] idx % 3 = 1 -> 0 [] OTHER -> NoneCoord
LngAt(idx) == CASE idx % 3 = 0 -> 21 [] idx % 3 = 1 -> NoneCoord [] OTHER -> 0

\* distance_from_start_km of the first waypoint: 0 from the GPX parser, any
\* value in a waypoint list written through the route API
StartAt(pattern) == IF "start" \in DOMAIN pattern THEN pattern.start ELSE 0

\* the waypoint list for a list of segment lengths
MkWaypoints(segs, pattern) ==
    [k \in 1..(Len(segs) + 1) |->
        [ distance_from_start_km |-> StartAt(pattern) + Cumulative(segs, k - 1),
          country_code |-> CountryAt(pattern, k - 1),
          lat |-> LatAt(k - 1),
          lng |-> LngAt(k - 1) ]]

\* Route.total_distance_km is a DecimalField(decimal_places=2) that
\* Route.clean requires to be positive; the route processor sets it to the
\* track length rounded to 2 places
TotalDistanceOf(wps) ==
    LET last == IF Len(wps) = 0 THEN 0 ELSE wps[Len(wps)].distance_from_start_km
        centi == RoundHalfEven(last, KmCenti)
    IN  (IF centi > 0 THEN centi ELSE 1) * KmCenti

MkRoute(wps, codes) ==
    [ waypoints |-> wps, countries |-> codes, total_distance_km |-> TotalDistanceOf(wps) ]

SegLists(maxSegs) == UNION { [1..n -> SegmentLens] : n \in 0..maxSegs }

PlainPattern == [first |-> "PL", rest |-> "PL", border |-> 1]

\* routes that vary the distances: every waypoint in PL
DistanceRoutes ==
    { MkRoute(MkWaypoints(segs, PlainPattern), <<"PL">>) : segs \in SegLists(MaxWaypoints - 1) }
    \cup { MkRoute(<<>>, <<"PL">>) }

\* routes that vary the country data
CountryCases ==
    { [pattern |-> [first |-> "PL", rest |-> "DE", border |-> 1], countries |-> <<"PL", "DE">>],
      [pattern |-> [first |-> "pl", rest |-> "de", border |-> 1], countries |-> <<"pl", "de">>],
      [pattern |-> [first |-> "PL", rest |-> "DE", border |-> 1], countries |-> <<"PL">>],
      [pattern |-> [first |-> "PL", rest |-> "CZ", border |-> 1], countries |-> <<"PL", "CZ">>],
      [pattern |-> [first |-> NoneCode, rest |-> "PL", border |-> 2], countries |-> <<"PL">>],
      [pattern |-> PlainPattern, countries |-> <<>>] }

CountryRoutes ==
    { MkRoute(MkWaypoints(segs, c.pattern), c.countries) :
        segs \in SegLists(MaxWaypoints - 2), c \in CountryCases }

\* routes written through the route API: a countries list that repeats a
\* code, and a first waypoint that is not at distance 0
WrittenCases ==
    { [pattern |-> PlainPattern, countries |-> <<"PL", "CZ", "de", "cz">>],
      [pattern |-> [first |-> "PL", rest |-> "PL", border |-> 1, start |-> 10 * KmScale],
       countries |-> <<"PL">>] }

WrittenRoutes ==
    { MkRoute(MkWaypoints(segs, c.pattern), c.countries) :
        segs \in SegLists(MaxWaypoints - 3), c \in WrittenCases }

\* a total_distance_km written through the route API, not the distance of
\* the last waypoint: 0.25 km
WrittenTotalRoutes ==
    { [MkRoute(MkWaypoints(segs, PlainPattern), <<"PL">>) EXCEPT !.total_distance_km = 25 * KmCenti] :
        segs \in SegLists(MaxWaypoints - 3) }

\* a route that crosses the border after its second waypoint, with waypoints
\* 10 km apart; the second country is tagged in lower case
BorderRoutes ==
    { MkRoute(MkWaypoints(segs, [first |-> "PL", rest |-> "de", border |-> 2]), <<"PL", "de">>) :
        segs \in [1..(MaxWaypoints - 1) -> {10 * KmScale}] }

Routes ==
    DistanceRoutes \cup CountryRoutes \cup WrittenRoutes \cup WrittenTotalRoutes \cup BorderRoutes

\* ------------------------------------------------- BaseRefuelStrategy
Min(S) == CHOOSE x \in S : \A y \in S : x <= y

\* BaseRefuelStrategy.__init__: the derived values of a strategy instance
BaseRefuelStrategy(c, reservoir) ==
    [ avg_consumption |-> c.avg_consumption,
      reservoir_km |-> reservoir * KmScale,
      max_range_km |-> max_range_km(c),
      usable_range_km |-> max_range_km(c) - reservoir * KmScale ]

\* mutant: a reserve equal to the whole range is accepted
StrategyInitErrorAllowsEqual(s) ==
    IF s.reservoir_km > s.max_range_km THEN "reservoir_ge_max_range"
    ELSE IF s.reservoir_km < 0 THEN "reservoir_negative"
    ELSE ""

\* MinimumStopsStrategy.__init__: the PlanningError it raises, "" for none
StrategyInitError(s) ==
    IF s.reservoir_km >= s.max_range_km THEN "reservoir_ge_max_range"
    ELSE IF s.reservoir_km < 0 THEN "reservoir_negative"
    ELSE ""

\* segment i (0-based) of a waypoint list: distance(i + 1) - distance(i)
SegmentDistance(wps, i) ==
    wps[i + 2].distance_from_start_km - wps[i + 1].distance_from_start_km

\* mutant: a segment equal to the usable range is rejected
SegmentInfeasibleInclusive(segment_distance, usable_range_km) ==
    segment_distance >= usable_range_km

\* the comparison of _validate_segments
SegmentInfeasible(segment_distance, usable_range_km) ==
    segment_distance > usable_range_km

\* mutant: no segment is validated
ValidateSegmentsSkipped(s, wps) == 0 - 1

\* _validate_segments: the index of the first infeasible segment, -1 for none
ValidateSegments(s, wps) ==
    LET bad == { i \in 0..(Len(wps) - 2) :
                    SegmentInfeasible(SegmentDistance(wps, i), s.usable_range_km) }
    IN  IF bad = {} THEN 0 - 1 ELSE Min(bad)

\* mutants of the refuel condition
NeedsRefuelNoReserve(current_fuel_km, segment_distance, reservoir_km) ==
    current_fuel_km < segment_distance

NeedsRefuelInclusive(current_fuel_km, segment_distance, reservoir_km) ==
    current_fuel_km <= segment_distance + reservoir_km

NeedsRefuelDoubleReserve(current_fuel_km, segment_distance, reservoir_km) ==
    current_fuel_km < segment_distance + 2 * reservoir_km

NeedsRefuelBelowReserve(current_fuel_km, segment_distance, reservoir_km) ==
    current_fuel_km < reservoir_km

\* the refuel condition of calculate_plan
NeedsRefuel(current_fuel_km, segment_distance, reservoir_km) ==
    current_fuel_km < segment_distance + reservoir_km

\* mutant: the consumption is taken per km, not per 100 km
FuelNeededLitersPerKm(fuel_needed_km, avg_consumption) ==
    fuel_needed_km * avg_consumption * 100

\* (fuel_needed_km / 100) * avg_consumption, in 1/LitersScale l
FuelNeededLiters(fuel_needed_km, avg_consumption) ==
    fuel_needed_km * avg_consumption

\* Decimal(str(v)) if waypoint.get(key) else None
StopCoordinate(v) == IF v # NoneCoord /\ v # 0 THEN v ELSE NoneCoord

\* mutant: the tank is reset before the quantity is computed
StopAtAfterReset(s, wps, i, current_fuel_km) ==
    [ waypoint_index |-> i,
      distance_from_start_km |-> wps[i + 1].distance_from_start_km,
      country_code |-> wps[i + 1].country_code,
      fuel_to_add_liters |-> (s.max_range_km - s.max_range_km) * s.avg_consumption,
      latitude |-> IF wps[i + 1].lat # NoneCoord /\ wps[i + 1].lat # 0 THEN wps[i + 1].lat ELSE NoneCoord,
      longitude |-> IF wps[i + 1].lng # NoneCoord /\ wps[i + 1].lng # 0 THEN wps[i + 1].lng ELSE NoneCoord ]

\* the RefuelStopData emitted at waypoint i (0-based)
StopAt(s, wps, i, current_fuel_km) ==
    [ waypoint_index |-> i,
      distance_from_start_km |-> wps[i + 1].distance_from_start_km,
      country_code |-> wps[i + 1].country_code,
      fuel_to_add_liters |->
          FuelNeededLiters(s.max_range_km - current_fuel_km, s.avg_consumption),
      latitude |-> StopCoordinate(wps[i + 1].lat),
      longitude |-> StopCoordinate(wps[i + 1].lng) ]

RECURSIVE PlanLoop(_, _, _, _, _)
\* the for loop of calculate_plan from iteration i on
PlanLoop(s, wps, i, current_fuel_km, stops) ==
    IF i > Len(wps) - 2 THEN stops
    ELSE
        LET segment_distance == SegmentDistance(wps, i)
            refuel == NeedsRefuel(current_fuel_km, segment_distance, s.reservoir_km)
            fuel == IF refuel THEN s.max_range_km ELSE current_fuel_km
        IN  PlanLoop(s, wps, i + 1, fuel - segment_distance,
                     IF refuel THEN Append(stops, StopAt(s, wps, i, current_fuel_km))
                     ELSE stops)

\* mutant: only the empty waypoint list is refused
calculate_plan_accepts_single(s, wps) ==
    IF Len(wps) < 1
    THEN [error |-> "lt_2_waypoints", segment |-> 0 - 1, distance |-> 0, stops |-> <<>>]
    ELSE IF ValidateSegments(s, wps) >= 0
    THEN [error |-> "segment_exceeds_usable_range",
          segment |-> ValidateSegments(s, wps),
          distance |-> SegmentDistance(wps, ValidateSegments(s, wps)),
          stops |-> <<>>]
    ELSE [error |-> "", segment |-> 0 - 1, distance |-> 0,
          stops |-> PlanLoop(s, wps, 0, s.max_range_km, <<>>)]

\* MinimumStopsStrategy.calculate_plan: the error raised ("" for none), the
\* segment index and segment distance its message names, the stops returned
calculate_plan(s, wps) ==
    IF Len(wps) < 2
    THEN [error |-> "lt_2_waypoints", segment |-> 0 - 1, distance |-> 0, stops |-> <<>>]
    ELSE IF ValidateSegments(s, wps) >= 0
    THEN [error |-> "segment_exceeds_usable_range",
          segment |-> ValidateSegments(s, wps),
          distance |-> SegmentDistance(wps, ValidateSegments(s, wps)),
          stops |-> <<>>]
    ELSE [error |-> "", segment |-> 0 - 1, distance |-> 0,
          stops |-> PlanLoop(s, wps, 0, s.max_range_km, <<>>)]

\* ------------------------------------------------------ PlannerService
\* FuelPrice.objects.filter(country, fuel_type): the matching rows
PriceRowsFor(rows, code, fuel_type) ==
    { r \in rows : r.country = code /\ r.fuel_type = fuel_type }

\* mutant: order_by('scraped_at'), the oldest row first
LatestPriceOldestFirst(rows) == CHOOSE r \in rows : \A o \in rows : r.scraped_at <= o.scraped_at

\* .order_by('-scraped_at').first() on a non-empty set of rows
LatestPrice(rows) == CHOOSE r \in rows : \A o \in rows : o.scraped_at <= r.scraped_at

\* Country.objects.get(code) finds a row and a FuelPrice of the fuel type exists
HasPrice(rows, code, fuel_type) ==
    code \in CountryRows /\ PriceRowsFor(rows, code, fuel_type) # {}

\* mutant: countries without a price are skipped instead of reported
get_fuel_prices_skips_missing(rt, c, rows) ==
    LET codes == [k \in 1..Len(rt.countries) |-> Upper(rt.countries[k])]
    IN  IF Len(rt.countries) = 0
        THEN [error |-> "no_countries", missing |-> <<>>, prices |-> {}]
        ELSE [error |-> "", missing |-> <<>>,
              prices |-> { [ country_code |-> codes[k],
                             price |-> LatestPrice(PriceRowsFor(rows, codes[k], c.fuel_type)) ] :
                           k \in { j \in 1..Len(codes) : HasPrice(rows, codes[j], c.fuel_type) } }]

\* _get_fuel_prices: the error raised ("" for none), the missing_countries
\* list and the fuel_prices dict as a set of (country_code, price) entries
get_fuel_prices(rt, c, rows) ==
    LET codes == [k \in 1..Len(rt.countries) |-> Upper(rt.countries[k])]
        missing == SelectSeq(codes, LAMBDA code : ~HasPrice(rows, code, c.fuel_type))
        found == { [ country_code |-> codes[k],
                     price |-> LatestPrice(PriceRowsFor(rows, codes[k], c.fuel_type)) ] :
                   k \in { j \in 1..Len(codes) : HasPrice(rows, codes[j], c.fuel_type) } }
    IN  IF Len(rt.countries) = 0
        THEN [error |-> "no_countries", missing |-> <<>>, prices |-> {}]
        ELSE IF Len(missing) > 0
        THEN [error |-> "missing_fuel_prices", missing |-> missing, prices |-> {}]
        ELSE [error |-> "", missing |-> <<>>, prices |-> found]

\* fuel_prices[stop['country_code'].upper()]: the exception of the lookup
PriceLookupError(prices, code) ==
    IF code = NoneCode THEN "AttributeError"
    ELSE IF \A e \in prices : e.country_code # Upper(code) THEN "KeyError"
    ELSE ""

PriceOf(prices, code) == (CHOOSE e \in prices : e.country_code = Upper(code)).price

\* fuel_liters * price_per_liter of one stop, unrounded, in 1/MoneyScale EUR
StopCost(prices, stop) ==
    stop.fuel_to_add_liters * PriceOf(prices, stop.country_code).price_per_liter

RECURSIVE SumCostSkipsLast(_, _, _)
\* mutant: the loop stops one stop early
SumCostSkipsLast(prices, stops, n) ==
    IF n <= 1 THEN 0
    ELSE SumCostSkipsLast(prices, stops, n - 1) + StopCost(prices, stops[n - 1])

RECURSIVE SumCost(_, _, _)
\* the running total_cost after the first n stops
SumCost(prices, stops, n) ==
    IF n = 0 THEN 0 ELSE SumCost(prices, stops, n - 1) + StopCost(prices, stops[n])

\* the exception of the first stop whose price lookup fails, "" for none
FirstLookupError(prices, stops) ==
    LET bad == { n \in 1..Len(stops) : PriceLookupError(prices, stops[n].country_code) # "" }
    IN  IF bad = {} THEN "" ELSE PriceLookupError(prices, stops[Min(bad)].country_code)

\* value.quantize(Decimal('0.01')) of a value given in units of 1/(100 * centi)
Quantize(value, centi) == RoundHalfEven(value, centi) * centi

\* the value a numeric(p, 2) column keeps of a value it is given
StoreDecimal2(value, centi) == RoundHalfUp(value, centi) * centi

RECURSIVE SumLiters(_, _)
\* the liters of the first n stops
SumLiters(stops, n) ==
    IF n = 0 THEN 0 ELSE SumLiters(stops, n - 1) + stops[n].fuel_to_add_liters

\* mutant: the total fuel is the sum of the liters of the stops
calculate_totals_sums_stops(rt, c, stops, prices) ==
    IF FirstLookupError(prices, stops) # ""
    THEN [error |-> FirstLookupError(prices, stops), total_fuel_liters |-> 0, total_cost |-> 0]
    ELSE [error |-> "",
          total_fuel_liters |-> Quantize(SumLiters(stops, Len(stops)), LitersCenti),
          total_cost |-> Quantize(SumCost(prices, stops, Len(stops)), MoneyCenti)]

\* _calculate_totals: the exception raised ("" for none) and the two totals
calculate_totals(rt, c, stops, prices) ==
    IF FirstLookupError(prices, stops) # ""
    THEN [error |-> FirstLookupError(prices, stops), total_fuel_liters |-> 0, total_cost |-> 0]
    ELSE [error |-> "",
          total_fuel_liters |-> Quantize(rt.total_distance_km * c.avg_consumption, LitersCenti),
          total_cost |-> Quantize(SumCost(prices, stops, Len(stops)), MoneyCenti)]

\* RefuelPlan.clean, run by ValidatedModel.save: the fields in error
PlanCleanErrors(p) ==
    (IF p.reservoir_km < 0 THEN {"reservoir_km"} ELSE {})
    \cup (IF p.total_cost < 0 THEN {"total_cost"} ELSE {})
    \cup (IF p.total_fuel_needed <= 0 THEN {"total_fuel_needed"} ELSE {})
    \cup (IF p.number_of_stops < 0 THEN {"number_of_stops"} ELSE {})

\* mutant: enumerate(stops_data) without start=1
StopRowsFromZero(plan_id, stops, prices) ==
    { [ plan |-> plan_id,
        stop_number |-> n - 1,
        country |-> PriceOf(prices, stops[n].country_code).country,
        fuel_price |-> PriceOf(prices, stops[n].country_code).id,
        distance_from_start_km |-> StoreDecimal2(stops[n].distance_from_start_km, KmCenti),
        fuel_to_add_liters |-> StoreDecimal2(stops[n].fuel_to_add_liters, LitersCenti),
        total_cost |-> StoreDecimal2(StopCost(prices, stops[n]), MoneyCenti),
        latitude |-> stops[n].latitude,
        longitude |-> stops[n].longitude ] : n \in 1..Len(stops) }

\* mutant: every stop gets the country of the first stop
StopRowsCountryOfFirstStop(plan_id, stops, prices) ==
    { [ plan |-> plan_id,
        stop_number |-> n,
        country |-> PriceOf(prices, stops[1].country_code).country,
        fuel_price |-> PriceOf(prices, stops[n].country_code).id,
        distance_from_start_km |-> StoreDecimal2(stops[n].distance_from_start_km, KmCenti),
        fuel_to_add_liters |-> StoreDecimal2(stops[n].fuel_to_add_liters, LitersCenti),
        total_cost |-> StoreDecimal2(StopCost(prices, stops[n]), MoneyCenti),
        latitude |-> stops[n].latitude,
        longitude |-> stops[n].longitude ] : n \in 1..Len(stops) }

\* the RefuelStop rows _create_stops hands to bulk_create, as the table keeps them
StopRows(plan_id, stops, prices) ==
    { [ plan |-> plan_id,
        stop_number |-> n,
        country |-> PriceOf(prices, stops[n].country_code).country,
        fuel_price |-> PriceOf(prices, stops[n].country_code).id,
        distance_from_start_km |-> StoreDecimal2(stops[n].distance_from_start_km, KmCenti),
        fuel_to_add_liters |-> StoreDecimal2(stops[n].fuel_to_add_liters, LitersCenti),
        total_cost |-> StoreDecimal2(StopCost(prices, stops[n]), MoneyCenti),
        latitude |-> stops[n].latitude,
        longitude |-> stops[n].longitude ] : n \in 1..Len(stops) }

\* mutant: no atomic block, every write is committed as it is made
AtomicExitNoRollback(committed, written, raised) ==
    [ plans |-> committed.plans \cup written.plans,
      stops |-> committed.stops \cup written.stops ]

\* @transaction.atomic: what the tables hold once create_plan has left the
\* block; an exception rolls the writes of the block back
AtomicExit(committed, written, raised) ==
    IF raised THEN committed
    ELSE [ plans |-> committed.plans \cup written.plans,
           stops |-> committed.stops \cup written.stops ]

\* ----------------------------------------------------------------- state
VARIABLES
    route,           \* the Route row the service was given
    car,             \* the Car row the service was given
    fuel_price_rows, \* the FuelPrice table
    db,              \* committed RefuelPlan and RefuelStop rows, as any reader sees them
    tx,              \* rows written inside the open atomic block of create_plan
    db_before,       \* the committed rows when the running call began
    pc,              \* position of the running create_plan call
    reservoir_km,    \* self.reservoir_km
    strategy_choice, \* self.strategy_choice
    fuel_prices,     \* the dict _get_fuel_prices returned
    strategy,        \* the strategy instance, a list of at most one
    stops_data,      \* the list calculate_plan returned
    totals,          \* the pair _calculate_totals returned
    plan,            \* the RefuelPlan instance, a list of at most one
    result           \* how the last call ended

vars == << route, car, fuel_price_rows, db, tx, db_before, pc, reservoir_km,
           strategy_choice, fuel_prices, strategy, stops_data, totals, plan, result >>

inputs == << route, car >>
locals == << reservoir_km, strategy_choice, fuel_prices, strategy, stops_data, totals, plan >>

NoRows == [plans |-> {}, stops |-> {}]
NoTotals == [total_fuel_liters |-> 0, total_cost |-> 0]
NoResult == [exc |-> "", msg |-> "", missing |-> <<>>, segment |-> 0 - 1, distance |-> 0]

Raised(exc, msg) ==
    [exc |-> exc, msg |-> msg, missing |-> <<>>, segment |-> 0 - 1, distance |-> 0]

Init ==
    /\ route \in Routes
    /\ car \in Cars
    /\ fuel_price_rows = FuelPriceRows
    /\ db = NoRows
    /\ tx = NoRows
    /\ db_before = NoRows
    /\ pc = "idle"
    /\ reservoir_km = 0
    /\ strategy_choice = ""
    /\ fuel_prices = {}
    /\ strategy = <<>>
    /\ stops_data = <<>>
    /\ totals = NoTotals
    /\ plan = <<>>
    /\ result = NoResult

\* an exception leaves create_plan: the atomic block rolls back
Raise(r) ==
    /\ db' = AtomicExit(db, tx, TRUE)
    /\ tx' = NoRows
    /\ result' = r
    /\ pc' = "done"

\* mutant: the service upper-cases route.countries in place
BeginNormalisesCountries ==
    /\ pc = "idle"
    /\ Cardinality(db.plans) < MaxPlans
    /\ \E rq \in Requests :
          /\ reservoir_km' = rq.reservoir_km
          /\ strategy_choice' = rq.strategy
    /\ route' = [route EXCEPT !.countries = [k \in 1..Len(route.countries) |-> Upper(route.countries[k])]]
    /\ db_before' = db
    /\ result' = NoResult
    /\ pc' = "get_fuel_prices"
    /\ UNCHANGED << car, fuel_price_rows, db, tx, fuel_prices, strategy, stops_data, totals, plan >>

\* PlannerService(route, car, reservoir_km, strategy).create_plan() is entered
Begin ==
    /\ pc = "idle"
    /\ Cardinality(db.plans) < MaxPlans
    /\ \E rq \in Requests :
          /\ reservoir_km' = rq.reservoir_km
          /\ strategy_choice' = rq.strategy
    /\ db_before' = db
    /\ result' = NoResult
    /\ pc' = "get_fuel_prices"
    /\ UNCHANGED << inputs, fuel_price_rows, db, tx, fuel_prices, strategy, stops_data, totals, plan >>

\* mutant: the strategy name is looked up before the prices are resolved
GetFuelPricesAfterDispatch ==
    /\ pc = "get_fuel_prices"
    /\ LET got == get_fuel_prices(route, car, fuel_price_rows)
       IN  IF strategy_choice \notin STRATEGY_MAP
           THEN /\ Raise(Raised("PlanningError", "strategy_not_implemented"))
                /\ UNCHANGED fuel_prices
           ELSE IF got.error # ""
           THEN /\ Raise([Raised("PlanningError", got.error) EXCEPT !.missing = got.missing])
                /\ UNCHANGED fuel_prices
           ELSE /\ fuel_prices' = got.prices
                /\ pc' = "get_strategy"
                /\ UNCHANGED << db, tx, result >>
    /\ UNCHANGED << inputs, fuel_price_rows, db_before, reservoir_km, strategy_choice,
                    strategy, stops_data, totals, plan >>

\* fuel_prices = self._get_fuel_prices()
GetFuelPrices ==
    /\ pc = "get_fuel_prices"
    /\ LET got == get_fuel_prices(route, car, fuel_price_rows)
       IN  IF got.error # ""
           THEN /\ Raise([Raised("PlanningError", got.error) EXCEPT !.missing = got.missing])
                /\ UNCHANGED fuel_prices
           ELSE /\ fuel_prices' = got.prices
                /\ pc' = "get_strategy"
                /\ UNCHANGED << db, tx, result >>
    /\ UNCHANGED << inputs, fuel_price_rows, db_before, reservoir_km, strategy_choice,
                    strategy, stops_data, totals, plan >>

\* strategy = self._get_strategy_instance()
GetStrategyInstance ==
    /\ pc = "get_strategy"
    /\ LET s == BaseRefuelStrategy(car, reservoir_km)
       IN  IF strategy_choice \notin STRATEGY_MAP
           THEN /\ Raise(Raised("PlanningError", "strategy_not_implemented"))
                /\ UNCHANGED strategy
           ELSE IF StrategyInitError(s) # ""
           THEN /\ Raise(Raised("PlanningError", StrategyInitError(s)))
                /\ UNCHANGED strategy
           ELSE /\ strategy' = << s >>
                /\ pc' = "calculate_plan"
                /\ UNCHANGED << db, tx, result >>
    /\ UNCHANGED << inputs, fuel_price_rows, db_before, reservoir_km, strategy_choice,
                    fuel_prices, stops_data, totals, plan >>

\* mutant: the tank level is kept on the instance and is not full again when
\* an earlier call has run
CalculatePlanCarriesFuel ==
    /\ pc = "calculate_plan"
    /\ LET got == calculate_plan(strategy[1], route.waypoints)
       IN  IF got.error # ""
           THEN /\ Raise([Raised("PlanningError", got.error) EXCEPT
                             !.segment = got.segment, !.distance = got.distance])
                /\ UNCHANGED stops_data
           ELSE /\ stops_data' =
                     IF db.plans = {} THEN got.stops
                     ELSE PlanLoop(strategy[1], route.waypoints, 0,
                                   strategy[1].reservoir_km, <<>>)
                /\ pc' = "calculate_totals"
                /\ UNCHANGED << db, tx, result >>
    /\ UNCHANGED << inputs, fuel_price_rows, db_before, reservoir_km, strategy_choice,
                    fuel_prices, strategy, totals, plan >>

\* stops_data = strategy.calculate_plan(self.route.waypoints)
CalculatePlan ==
    /\ pc = "calculate_plan"
    /\ LET got == calculate_plan(strategy[1], route.waypoints)
       IN  IF got.error # ""
           THEN /\ Raise([Raised("PlanningError", got.error) EXCEPT
                             !.segment = got.segment, !.distance = got.distance])
                /\ UNCHANGED stops_data
           ELSE /\ stops_data' = got.stops
                /\ pc' = "calculate_totals"
                /\ UNCHANGED << db, tx, result >>
    /\ UNCHANGED << inputs, fuel_price_rows, db_before, reservoir_km, strategy_choice,
                    fuel_prices, strategy, totals, plan >>

\* total_fuel_liters, total_cost = self._calculate_totals(stops_data, fuel_prices)
CalculateTotals ==
    /\ pc = "calculate_totals"
    /\ LET got == calculate_totals(route, car, stops_data, fuel_prices)
       IN  IF got.error # ""
           THEN /\ Raise(Raised(got.error, "country_code"))
                /\ UNCHANGED totals
           ELSE /\ totals' = [total_fuel_liters |-> got.total_fuel_liters,
                              total_cost |-> got.total_cost]
                /\ pc' = "create_plan_row"
                /\ UNCHANGED << db, tx, result >>
    /\ UNCHANGED << inputs, fuel_price_rows, db_before, reservoir_km, strategy_choice,
                    fuel_prices, strategy, stops_data, plan >>

\* mutant: number_of_stops counts the waypoints
NewPlanRowCountsWaypoints ==
    [ id |-> Cardinality(db.plans) + 1,
      reservoir_km |-> reservoir_km,
      optimization_strategy |-> strategy_choice,
      total_cost |-> totals.total_cost,
      total_fuel_needed |-> totals.total_fuel_liters,
      number_of_stops |-> Len(route.waypoints) ]

\* mutant: the plan of the route and car is updated in place
NewPlanRowReusesId ==
    [ id |-> 1,
      reservoir_km |-> reservoir_km,
      optimization_strategy |-> strategy_choice,
      total_cost |-> totals.total_cost,
      total_fuel_needed |-> totals.total_fuel_liters,
      number_of_stops |-> Len(stops_data) ]

\* the row RefuelPlan.objects.create(...) is given
NewPlanRow ==
    [ id |-> Cardinality(db.plans) + 1,
      reservoir_km |-> reservoir_km,
      optimization_strategy |-> strategy_choice,
      total_cost |-> totals.total_cost,
      total_fuel_needed |-> totals.total_fuel_liters,
      number_of_stops |-> Len(stops_data) ]

\* plan = RefuelPlan.objects.create(...): full_clean, then the insert
CreatePlanRow ==
    /\ pc = "create_plan_row"
    /\ IF PlanCleanErrors(NewPlanRow) # {}
       THEN /\ Raise(Raised("ValidationError", CHOOSE f \in PlanCleanErrors(NewPlanRow) : TRUE))
            /\ UNCHANGED plan
       ELSE /\ plan' = << NewPlanRow >>
            /\ tx' = [tx EXCEPT !.plans = @ \cup { NewPlanRow }]
            /\ pc' = "create_stops"
            /\ UNCHANGED << db, result >>
    /\ UNCHANGED << inputs, fuel_price_rows, db_before, reservoir_km, strategy_choice,
                    fuel_prices, strategy, stops_data, totals >>

\* mutant: the prices are looked up again when the stops are created
CreateStopsRereadsPrices ==
    /\ pc = "create_stops"
    /\ \E db_error \in BOOLEAN :
          IF db_error
          THEN Raise(Raised("DatabaseError", "bulk_create"))
          ELSE /\ tx' = [tx EXCEPT !.stops = @ \cup
                          StopRows(plan[1].id, stops_data,
                                   get_fuel_prices(route, car, fuel_price_rows).prices)]
               /\ pc' = "return"
               /\ UNCHANGED << db, result >>
    /\ UNCHANGED << inputs, fuel_price_rows, db_before, locals >>

\* self._create_stops(plan, stops_data, fuel_prices); the bulk insert is a
\* database statement, which the database may refuse (db_error)
CreateStops ==
    /\ pc = "create_stops"
    /\ \E db_error \in BOOLEAN :
          IF db_error
          THEN Raise(Raised("DatabaseError", "bulk_create"))
          ELSE /\ tx' = [tx EXCEPT !.stops = @ \cup StopRows(plan[1].id, stops_data, fuel_prices)]
               /\ pc' = "return"
               /\ UNCHANGED << db, result >>
    /\ UNCHANGED << inputs, fuel_price_rows, db_before, locals >>

\* return plan: the atomic block is left without an exception and commits
ReturnPlan ==
    /\ pc = "return"
    /\ db' = AtomicExit(db, tx, FALSE)
    /\ tx' = NoRows
    /\ result' = [NoResult EXCEPT !.msg = "ok"]
    /\ pc' = "done"
    /\ UNCHANGED << inputs, fuel_price_rows, db_before, locals >>

\* the caller has the outcome; the service object is dropped
Finish ==
    /\ pc = "done"
    /\ pc' = "idle"
    /\ reservoir_km' = 0
    /\ strategy_choice' = ""
    /\ fuel_prices' = {}
    /\ strategy' = <<>>
    /\ stops_data' = <<>>
    /\ totals' = NoTotals
    /\ plan' = <<>>
    /\ result' = NoResult
    /\ db_before' = db
    /\ UNCHANGED << inputs, fuel_price_rows, db, tx >>

\* another writer (the price scraper) inserts a newer FuelPrice row
InsertFuelPrice ==
    /\ \E r \in NewFuelPriceRows \ fuel_price_rows :
          fuel_price_rows' = fuel_price_rows \cup { r }
    /\ UNCHANGED << inputs, db, tx, db_before, pc, locals, result >>

Next ==
    \/ Begin
    \/ GetFuelPrices
    \/ GetStrategyInstance
    \/ CalculatePlan
    \/ CalculateTotals
    \/ CreatePlanRow
    \/ CreateStops
    \/ ReturnPlan
    \/ Finish
    \/ InsertFuelPrice

Spec == Init /\ [][Next]_vars

\* ======================================================== verification
\* calculate_plan has just returned a stop list
CalculatePlanReturned == pc = "calculate_totals"

\* the waypoint indices (0-based) of the returned stops
StopIndices == { stops_data[n].waypoint_index : n \in 1..Len(stops_data) }

RECURSIVE ArrivalRange(_, _, _, _)
\* the drive replayed: the range left on arrival at waypoint k (0-based) when
\* the tank is full at the start and filled to full_range at the waypoints in
\* refuel_at
ArrivalRange(wps, refuel_at, k, full_range) ==
    IF k = 0 THEN full_range
    ELSE (IF (k - 1) \in refuel_at THEN full_range
          ELSE ArrivalRange(wps, refuel_at, k - 1, full_range))
         - SegmentDistance(wps, k - 1)

\* the reserve is kept on arrival at every waypoint when refuelling at refuel_at
KeepsReserve(wps, refuel_at, s) ==
    \A k \in 1..(Len(wps) - 1) :
        ArrivalRange(wps, refuel_at, k, s.max_range_km) >= s.reservoir_km

\* C1: whenever calculate_plan returns normally, replaying the drive with a
\* full tank at the start and a fill-to-full at each returned stop leaves a
\* range >= reservoir_km on arrival at every waypoint, the final one included
C1_ReserveKept ==
    CalculatePlanReturned => KeepsReserve(route.waypoints, StopIndices, strategy[1])

\* a plan with two stops where the car arrives somewhere with exactly the reserve
C1_Witness ==
    /\ CalculatePlanReturned
    /\ Len(stops_data) >= 2
    /\ \E k \in 1..(Len(route.waypoints) - 1) :
          ArrivalRange(route.waypoints, StopIndices, k, strategy[1].max_range_km)
              = strategy[1].reservoir_km
    /\ strategy[1].reservoir_km > 0

\* C2: no set of waypoints with fewer elements than the returned stop list,
\* used as fill-to-full refuel points, keeps the reserve on every arrival
C2_MinimumStops ==
    CalculatePlanReturned =>
        \A refuel_at \in SUBSET (0..(Len(route.waypoints) - 1)) :
            KeepsReserve(route.waypoints, refuel_at, strategy[1])
                => Cardinality(refuel_at) >= Len(stops_data)

\* two stops were needed, and a larger set of refuel points is safe as well
C2_Witness ==
    /\ CalculatePlanReturned
    /\ Len(stops_data) = 2
    /\ \E refuel_at \in SUBSET (0..(Len(route.waypoints) - 1)) :
          /\ Cardinality(refuel_at) = 3
          /\ KeepsReserve(route.waypoints, refuel_at, strategy[1])

\* C3: a stop is emitted at waypoint i exactly when the range left on arrival
\* at i is strictly less than the next segment plus the reserve
C3_StrictTrigger ==
    CalculatePlanReturned =>
        \A i \in 0..(Len(route.waypoints) - 2) :
            (i \in StopIndices) <=>
                ArrivalRange(route.waypoints, StopIndices, i, strategy[1].max_range_km)
                    < SegmentDistance(route.waypoints, i) + strategy[1].reservoir_km

\* one route shows both sides of the boundary: at one waypoint the range
\* equals segment + reserve and no stop is emitted, at another it is one unit
\* less and a stop is emitted
C3_Witness ==
    /\ CalculatePlanReturned
    /\ \E i \in 0..(Len(route.waypoints) - 2) :
          /\ ArrivalRange(route.waypoints, StopIndices, i, strategy[1].max_range_km)
                = SegmentDistance(route.waypoints, i) + strategy[1].reservoir_km
          /\ i \notin StopIndices
    /\ \E i \in 0..(Len(route.waypoints) - 2) :
          /\ ArrivalRange(route.waypoints, StopIndices, i, strategy[1].max_range_km)
                = SegmentDistance(route.waypoints, i) + strategy[1].reservoir_km - 1
          /\ i \in StopIndices

\* C10: every stop calculate_plan emits adds a quantity of fuel > 0
C10_PositiveFuel ==
    CalculatePlanReturned =>
        \A n \in 1..Len(stops_data) : stops_data[n].fuel_to_add_liters > 0

\* a stop right after a zero-length segment, and a stop that adds the least
\* quantity the model can express
C10_Witness ==
    /\ CalculatePlanReturned
    /\ \E n \in 1..Len(stops_data) :
          /\ stops_data[n].waypoint_index >= 1
          /\ SegmentDistance(route.waypoints, stops_data[n].waypoint_index - 1) = 0
    /\ \E n \in 1..Len(stops_data) :
          stops_data[n].fuel_to_add_liters = car.avg_consumption

Abs(x) == IF x < 0 THEN 0 - x ELSE x

\* the running call has constructed a strategy and calculate_plan has been
\* called on it: it returned or raised
CalculatePlanDone == strategy # <<>> /\ pc # "calculate_plan"

\* calculate_plan raised the infeasible-segment PlanningError
SegmentErrorRaised ==
    /\ pc = "done"
    /\ result.exc = "PlanningError"
    /\ result.msg = "segment_exceeds_usable_range"

\* the segments (0-based) longer than max_range_km - reservoir_km
TooLongSegments ==
    { i \in 0..(Len(route.waypoints) - 2) :
        route.waypoints[i + 2].distance_from_start_km
            - route.waypoints[i + 1].distance_from_start_km
          > max_range_km(car) - reservoir_km * KmScale }

\* C11: calculate_plan raises the infeasible-segment PlanningError exactly
\* when some segment is strictly longer than max_range_km - reservoir_km; the
\* error names the lowest such segment and its distance, and no stop is
\* returned, whatever stops the segments before it would have needed
C11_InfeasibleSegment ==
    CalculatePlanDone =>
        /\ SegmentErrorRaised <=> TooLongSegments # {}
        /\ SegmentErrorRaised =>
              /\ \A i \in TooLongSegments : result.segment <= i
              /\ result.segment \in TooLongSegments
              /\ result.distance = SegmentDistance(route.waypoints, result.segment)
              /\ stops_data = <<>>

\* the error names a segment after one where a stop would have been made, and
\* a segment exactly as long as the usable range comes before it
C11_Witness ==
    /\ CalculatePlanDone
    /\ SegmentErrorRaised
    /\ result.segment = 2
    /\ Cardinality(TooLongSegments) = 1
    /\ SegmentDistance(route.waypoints, 0) = strategy[1].usable_range_km
    /\ PlanLoop(strategy[1], SubSeq(route.waypoints, 1, 3), 0, strategy[1].max_range_km, <<>>)
          # <<>>

\* _get_strategy_instance has been called with a mapped strategy name
StrategyRequested ==
    /\ fuel_prices # {}
    /\ pc \notin {"idle", "get_strategy"}
    /\ strategy_choice \in STRATEGY_MAP

\* C12: the strategy is constructed exactly when 0 <= reservoir_km <
\* car.max_range_km; otherwise the call ends with the PlanningError of the
\* constructor, whatever the waypoints are
C12_ReservoirBelowMaxRange ==
    StrategyRequested =>
        /\ strategy # <<>>
              <=> (0 <= reservoir_km /\ reservoir_km * KmScale < max_range_km(car))
        /\ strategy = <<>> =>
              /\ pc = "done"
              /\ result.exc = "PlanningError"
              /\ result.msg \in {"reservoir_ge_max_range", "reservoir_negative"}
              /\ stops_data = <<>>

\* the reserve equals the whole range of a car that has one, and the route
\* has too few waypoints to be planned at all
C12_Witness ==
    /\ StrategyRequested
    /\ strategy = <<>>
    /\ max_range_km(car) > 0
    /\ reservoir_km * KmScale = max_range_km(car)
    /\ Len(route.waypoints) < 2
    /\ result.msg = "reservoir_ge_max_range"

\* calculate_plan raised the too-few-waypoints PlanningError
TooFewWaypointsRaised ==
    /\ pc = "done"
    /\ result.exc = "PlanningError"
    /\ result.msg = "lt_2_waypoints"

\* C13: calculate_plan raises the too-few-waypoints PlanningError for every
\* waypoint list of fewer than 2 entries and for no list of 2 or more
C13_AtLeastTwoWaypoints ==
    CalculatePlanDone => (TooFewWaypointsRaised <=> Len(route.waypoints) < 2)

\* a single waypoint is refused
C13_Witness ==
    /\ CalculatePlanDone
    /\ TooFewWaypointsRaised
    /\ Len(route.waypoints) = 1

\* C19: a stop is emitted at every non-final waypoint where the car arrives
\* with exactly reservoir_km of range and the next segment has positive length
C19_StopAtExactReserve ==
    CalculatePlanReturned =>
        \A i \in 1..(Len(route.waypoints) - 2) :
            ( /\ ArrivalRange(route.waypoints, StopIndices, i, strategy[1].max_range_km)
                    = strategy[1].reservoir_km
              /\ SegmentDistance(route.waypoints, i) > 0 )
            => i \in StopIndices

\* the car arrives with exactly the reserve and the next segment is the
\* shortest positive one
C19_Witness ==
    /\ CalculatePlanReturned
    /\ strategy[1].reservoir_km > 0
    /\ \E i \in 1..(Len(route.waypoints) - 2) :
          /\ ArrivalRange(route.waypoints, StopIndices, i, strategy[1].max_range_km)
                = strategy[1].reservoir_km
          /\ SegmentDistance(route.waypoints, i) = 1
          /\ i \in StopIndices

\* C18: on a route that starts at distance 0 and is planned without error,
\* no stop is returned exactly when the last waypoint lies within
\* usable_range_km = max_range_km - reservoir_km
C18_NoStopWithinUsableRange ==
    ( /\ CalculatePlanReturned
      /\ route.waypoints[1].distance_from_start_km = 0 )
    => ( stops_data = <<>>
           <=> route.waypoints[Len(route.waypoints)].distance_from_start_km
                 <= max_range_km(car) - reservoir_km * KmScale )

\* a route of three segments that ends exactly at the usable range, with a
\* reserve, needs no stop
C18_Witness ==
    /\ CalculatePlanReturned
    /\ route.waypoints[1].distance_from_start_km = 0
    /\ Len(route.waypoints) = 4
    /\ reservoir_km > 0
    /\ route.waypoints[4].distance_from_start_km = max_range_km(car) - reservoir_km * KmScale
    /\ stops_data = <<>>

\* the car and the waypoints of test_long_route_multiple_refuels: 50.0 l at
\* 6.5 l/100km, which is the range of 100 l at 13 l/100km, and a waypoint
\* every 100 km from 0 to 1500 km
LongRouteCar ==
    [name |-> "Toyota Corolla", fuel_type |-> "gasoline", tank_capacity |-> 100, avg_consumption |-> 13]

LongRouteWaypoints ==
    [k \in 1..16 |->
        [ distance_from_start_km |-> (k - 1) * 100 * KmScale,
          country_code |-> "PL", lat |-> 52, lng |-> 21 ]]

LongRoutePlan == calculate_plan(BaseRefuelStrategy(LongRouteCar, 100), LongRouteWaypoints)

\* the distance from the previous stop (from the first waypoint for stop 1)
\* to stop n of a stop list
LegBefore(wps, stops, n) ==
    stops[n].distance_from_start_km
      - (IF n = 1 THEN wps[1].distance_from_start_km ELSE stops[n - 1].distance_from_start_km)

\* C20: every returned stop lies at most usable_range_km beyond the previous
\* stop, the first one at most usable_range_km beyond the start; the route
\* of 1500 km in steps of 100 km, range about 769 km, reservoir 100, gets
\* exactly 2 stops, which keep that distance (a fact of no state, evaluated
\* in the states where no plan has been persisted and no call is running)
C20_StopWithinUsableRange ==
    /\ CalculatePlanReturned =>
          \A n \in 1..Len(stops_data) :
              LegBefore(route.waypoints, stops_data, n)
                <= max_range_km(car) - reservoir_km * KmScale
    /\ pc = "idle" /\ db = NoRows =>
          LET long == LongRoutePlan
          IN  /\ long.error = ""
              /\ Len(long.stops) = 2
              /\ \A n \in 1..Len(long.stops) :
                    LegBefore(LongRouteWaypoints, long.stops, n)
                      <= max_range_km(LongRouteCar) - 100 * KmScale

\* two stops, each exactly usable_range_km beyond the one before
C20_Witness ==
    /\ CalculatePlanReturned
    /\ Len(stops_data) = 2
    /\ reservoir_km > 0
    /\ \A n \in 1..2 :
          LegBefore(route.waypoints, stops_data, n) = strategy[1].usable_range_km

\* C23: Car.max_range_km is (tank_capacity / avg_consumption) * 100, to the
\* resolution of the model, when both are positive, and 0 when either is zero
\* or missing; the strategy instance carries that value
C23_MaxRange ==
    /\ (car.avg_consumption > 0 /\ car.tank_capacity > 0) =>
          /\ 2 * Abs(max_range_km(car) * car.avg_consumption
                       - car.tank_capacity * 100 * KmScale) <= car.avg_consumption
          /\ max_range_km(car) > 0
    /\ (car.avg_consumption \in {0, NoneDecimal} \/ car.tank_capacity \in {0, NoneDecimal}) =>
          max_range_km(car) = 0
    /\ strategy # <<>> =>
          /\ car.avg_consumption > 0 /\ car.tank_capacity > 0
          /\ 2 * Abs(strategy[1].max_range_km * car.avg_consumption
                       - car.tank_capacity * 100 * KmScale) <= car.avg_consumption

\* a car with a tank but a zero consumption was refused a strategy for a
\* reservoir of 0, its range being 0
C23_Witness ==
    /\ pc = "done"
    /\ car.avg_consumption = 0
    /\ car.tank_capacity > 0
    /\ reservoir_km = 0
    /\ result.msg = "reservoir_ge_max_range"

\* C28: no stop is emitted at the first waypoint nor at the last one, and the
\* waypoint indices of the returned stops are strictly increasing
C28_StopsAtInnerWaypoints ==
    CalculatePlanReturned =>
        /\ \A n \in 1..Len(stops_data) :
              /\ 1 <= stops_data[n].waypoint_index
              /\ stops_data[n].waypoint_index <= Len(route.waypoints) - 2
        /\ \A m, n \in 1..Len(stops_data) :
              m < n => stops_data[m].waypoint_index < stops_data[n].waypoint_index

\* the first segment is exactly as long as the usable range and stops are
\* made at every inner waypoint
C28_Witness ==
    /\ CalculatePlanReturned
    /\ Len(route.waypoints) = 4
    /\ SegmentDistance(route.waypoints, 0) = strategy[1].usable_range_km
    /\ StopIndices = {1, 2}

\* the distance of the refuel point before stop n: the previous stop, or the
\* first waypoint
RefuelPointBefore(n) ==
    IF n = 1 THEN route.waypoints[1].distance_from_start_km
    ELSE stops_data[n - 1].distance_from_start_km

\* the liters that driving d (1/KmScale km) takes, in 1/LitersScale l
LitersFor(d) == d * car.avg_consumption

\* the stops add what was driven since the previous refuel point, the range
\* on arrival is never above max_range_km, and no stop adds more than the
\* usable range takes
AddsWhatWasDriven ==
    /\ \A n \in 1..Len(stops_data) :
          /\ stops_data[n].fuel_to_add_liters
               = LitersFor(stops_data[n].distance_from_start_km - RefuelPointBefore(n))
          /\ stops_data[n].fuel_to_add_liters <= LitersFor(strategy[1].usable_range_km)
    /\ \A k \in 0..(Len(route.waypoints) - 1) :
          ArrivalRange(route.waypoints, StopIndices, k, strategy[1].max_range_km)
            <= strategy[1].max_range_km

C30_StopCarriesWaypoint ==
    CalculatePlanReturned =>
        \A n \in 1..Len(stops_data) :
            LET wp == route.waypoints[stops_data[n].waypoint_index + 1]
            IN  /\ stops_data[n].distance_from_start_km = wp.distance_from_start_km
                /\ stops_data[n].country_code = wp.country_code
                /\ stops_data[n].latitude = wp.lat
                /\ stops_data[n].longitude = wp.lng

\* ---------------------------------------------------- create_plan claims
Succeeded == pc = "done" /\ result.exc = ""
Failed == pc = "done" /\ result.exc # ""

\* the RefuelStop rows that reference plan row p, as a reader sees them
PlanStops(p) == { s \in db.stops : s.plan = p.id }

StopRow(p, n) == CHOOSE s \in PlanStops(p) : s.stop_number = n

PriceRowById(id) == CHOOSE r \in fuel_price_rows : r.id = id

\* C4: a reader sees a plan only together with all of its stops, sees nothing
\* of a call that is still running, and sees nothing of a call that failed
C4_AllOrNothing ==
    /\ \A p \in db.plans :
          { s.stop_number : s \in PlanStops(p) } = 1..p.number_of_stops
    /\ \A s \in db.stops : \E p \in db.plans : p.id = s.plan
    /\ pc \notin {"idle", "done"} => db = db_before
    /\ Failed => db = db_before

\* the bulk insert of the stops failed after the plan row had been written
C4_Witness ==
    /\ Failed
    /\ result.exc = "DatabaseError"
    /\ Len(plan) = 1
    /\ Len(stops_data) >= 1
    /\ db = db_before

\* some country of the route has no Country row or no price of the fuel type
SomePriceMissing ==
    \E k \in 1..Len(route.countries) :
        ~HasPrice(fuel_price_rows, Upper(route.countries[k]), car.fuel_type)

\* C5: when a route country lacks a price the call fails with the
\* missing-price PlanningError and the persisted rows are as before the call
C5_MissingPriceAbort ==
    (pc = "done" /\ SomePriceMissing) =>
        /\ result.exc = "PlanningError"
        /\ result.msg = "missing_fuel_prices"
        /\ db = db_before

\* the call failed for a missing price although the route needs no stop
C5_Witness ==
    /\ pc = "done"
    /\ SomePriceMissing
    /\ result.msg = "missing_fuel_prices"
    /\ strategy_choice \in STRATEGY_MAP
    /\ StrategyInitError(BaseRefuelStrategy(car, reservoir_km)) = ""
    /\ Len(route.waypoints) >= 2
    /\ calculate_plan(BaseRefuelStrategy(car, reservoir_km), route.waypoints).error = ""
    /\ calculate_plan(BaseRefuelStrategy(car, reservoir_km), route.waypoints).stops = <<>>

\* the missing-price PlanningError was raised
MissingPriceRaised ==
    /\ pc = "done"
    /\ result.exc = "PlanningError"
    /\ result.msg = "missing_fuel_prices"

\* the upper-cased codes of route.countries without a Country row or without
\* a price of the car's fuel type
MissingCodes ==
    { Upper(route.countries[k]) : k \in { j \in 1..Len(route.countries) :
        ~HasPrice(fuel_price_rows, Upper(route.countries[j]), car.fuel_type) } }

\* the position in route.countries where a code first appears
FirstAppearance(code) ==
    Min({ k \in 1..Len(route.countries) : Upper(route.countries[k]) = code })

\* C14 (as claimed): the error lists exactly the codes without a price, each
\* of them once, in the order of their first appearance in route.countries
C14_MissingListedOnce ==
    MissingPriceRaised =>
        /\ { result.missing[n] : n \in 1..Len(result.missing) } = MissingCodes
        /\ \A m, n \in 1..Len(result.missing) :
              m < n => /\ result.missing[m] # result.missing[n]
                       /\ FirstAppearance(result.missing[m]) < FirstAppearance(result.missing[n])

\* C15: the price _get_fuel_prices returns for a route country is the row of
\* that country and the car's fuel type with the greatest scraped_at among the
\* rows in the table when it is called, and is what the stop rows reference
C15_LatestPriceUsed ==
    /\ [][ (pc = "get_fuel_prices" /\ pc' = "get_strategy") =>
              \A k \in 1..Len(route.countries) :
                  \E e \in fuel_prices' :
                      /\ e.country_code = Upper(route.countries[k])
                      /\ e.price \in fuel_price_rows
                      /\ e.price.country = e.country_code
                      /\ e.price.fuel_type = car.fuel_type
                      /\ \A r \in fuel_price_rows :
                            (r.country = e.country_code /\ r.fuel_type = car.fuel_type)
                                => r.scraped_at <= e.price.scraped_at ]_vars
    /\ [](Succeeded =>
              \A s \in PlanStops(plan[1]) :
                  \E e \in fuel_prices :
                      /\ s.fuel_price = e.price.id
                      /\ s.country = e.price.country
                      /\ e.country_code = Upper(stops_data[s.stop_number].country_code))

\* a row the scraper inserted before the lookup is the one used, two older
\* rows of the same country and fuel type being in the table
C15_Witness ==
    /\ Succeeded
    /\ Len(stops_data) >= 1
    /\ \E s \in PlanStops(plan[1]) :
          /\ s.fuel_price > 10
          /\ \E r \in fuel_price_rows :
                /\ r.country = s.country
                /\ r.fuel_type = car.fuel_type
                /\ r.scraped_at < PriceRowById(s.fuel_price).scraped_at

\* C16: a call with a strategy name other than min_stops, the one key of
\* STRATEGY_MAP, ends with PlanningError, the not-implemented one when the
\* prices were resolved, and leaves the persisted rows as they were
C16_UnmappedStrategy ==
    (pc = "done" /\ strategy_choice # "min_stops") =>
        /\ result.exc = "PlanningError"
        /\ fuel_prices # {} => result.msg = "strategy_not_implemented"
        /\ db = db_before

\* balanced is refused although an earlier call has persisted a plan and the
\* same request with min_stops would succeed
C16_Witness ==
    /\ pc = "done"
    /\ strategy_choice = "balanced"
    /\ result.msg = "strategy_not_implemented"
    /\ db.plans # {}
    /\ \E p \in db.plans : p.reservoir_km = reservoir_km
    /\ db = db_before

\* what one function of the car, the reservoir and the waypoints gives
PlanOf(c, reservoir, wps) == calculate_plan(BaseRefuelStrategy(c, reservoir), wps)

C6_OnlyPlanningError ==
    pc = "done" => result.exc \in {"", "PlanningError", "DatabaseError"}

RECURSIVE StoredCostSum(_, _)
\* the sum of the total_cost of the first n stop rows of plan row p
StoredCostSum(p, n) ==
    IF n = 0 THEN 0 ELSE StoredCostSum(p, n - 1) + StopRow(p, n).total_cost

\* liters * price of stop n, unrounded, with the price row the stop row references
RawStopCost(p, n) ==
    stops_data[n].fuel_to_add_liters * PriceRowById(StopRow(p, n).fuel_price).price_per_liter

RECURSIVE RawCostSum(_, _)
RawCostSum(p, n) == IF n = 0 THEN 0 ELSE RawCostSum(p, n - 1) + RawStopCost(p, n)

\* C7 (as claimed): plan.total_cost is the sum of the stops' total_cost values
\* rounded to 2 places, each of them liters * price rounded to 2 places
C7_TotalIsSumOfStopCosts ==
    Succeeded =>
        /\ plan[1].total_cost = Quantize(StoredCostSum(plan[1], Len(stops_data)), MoneyCenti)
        /\ \A n \in 1..Len(stops_data) :
              StopRow(plan[1], n).total_cost = StoreDecimal2(RawStopCost(plan[1], n), MoneyCenti)

\* C7 (amended): plan.total_cost is the sum of the unrounded products
\* liters * price rounded once to 2 places; each stop's total_cost is its own
\* product rounded to 2 places, so the two differ by at most (N + 1) half cents
C7_TotalIsRoundedRawSum ==
    Succeeded =>
        /\ plan[1].total_cost
             = RoundHalfEven(RawCostSum(plan[1], Len(stops_data)), MoneyCenti) * MoneyCenti
        /\ \A n \in 1..Len(stops_data) :
              2 * Abs(StopRow(plan[1], n).total_cost - RawStopCost(plan[1], n)) <= MoneyCenti
        /\ 2 * Abs(plan[1].total_cost - StoredCostSum(plan[1], Len(stops_data)))
             <= (Len(stops_data) + 1) * MoneyCenti

\* a plan whose total_cost is not the sum of its stops' total_cost
C7_Witness ==
    /\ Succeeded
    /\ Len(stops_data) >= 2
    /\ plan[1].total_cost # StoredCostSum(plan[1], Len(stops_data))

\* C8: number_of_stops of the returned plan is the number of stop rows that
\* reference it and the length of the list the strategy returned
C8_NumberOfStops ==
    Succeeded =>
        /\ plan[1] \in db.plans
        /\ plan[1].number_of_stops = Cardinality(PlanStops(plan[1]))
        /\ plan[1].number_of_stops = Len(stops_data)

C8_Witness ==
    /\ Succeeded
    /\ plan[1].number_of_stops = 2
    /\ Cardinality(PlanStops(plan[1])) = 2

\* C9 (as claimed): stop numbers are exactly 1..N and the stops'
\* distance_from_start_km is strictly increasing with stop_number
C9_StrictlyIncreasingDistance ==
    Succeeded =>
        /\ { s.stop_number : s \in PlanStops(plan[1]) } = 1..Len(stops_data)
        /\ \A a, b \in PlanStops(plan[1]) :
              a.stop_number < b.stop_number
                  => a.distance_from_start_km < b.distance_from_start_km

\* C9 (amended): stop numbers are exactly 1..N in the strategy's list order;
\* the distances the strategy returned are strictly increasing, and the stored
\* distance_from_start_km (2 decimal places) is non-decreasing with stop_number
C9_NumberedInListOrder ==
    Succeeded =>
        /\ { s.stop_number : s \in PlanStops(plan[1]) } = 1..Len(stops_data)
        /\ Cardinality(PlanStops(plan[1])) = Len(stops_data)
        /\ \A s \in PlanStops(plan[1]) :
              /\ s.distance_from_start_km
                   = StoreDecimal2(stops_data[s.stop_number].distance_from_start_km, KmCenti)
              /\ s.fuel_price = PriceOf(fuel_prices, stops_data[s.stop_number].country_code).id
        /\ \A m, n \in 1..Len(stops_data) :
              m < n => stops_data[m].distance_from_start_km < stops_data[n].distance_from_start_km
        /\ \A a, b \in PlanStops(plan[1]) :
              a.stop_number < b.stop_number
                  => a.distance_from_start_km <= b.distance_from_start_km

\* two stops of one plan are stored with the same distance_from_start_km
C9_Witness ==
    /\ Succeeded
    /\ \E a, b \in PlanStops(plan[1]) :
          /\ a.stop_number < b.stop_number
          /\ a.distance_from_start_km = b.distance_from_start_km

\* C21: total_fuel_needed of a plan is (route.total_distance_km / 100) *
\* car.avg_consumption rounded half-even to 2 places, whatever the stops are:
\* all plans persisted for the route and car carry the same value
C21_TotalFuelOfRoute ==
    /\ Succeeded =>
          plan[1].total_fuel_needed
            = RoundHalfEven(route.total_distance_km * car.avg_consumption, LitersCenti) * LitersCenti
    /\ \A p, q \in db.plans : p.total_fuel_needed = q.total_fuel_needed

\* two persisted plans with different reservoirs and different numbers of stops
C21_Witness ==
    /\ Succeeded
    /\ \E p, q \in db.plans :
          /\ p.reservoir_km # q.reservoir_km
          /\ p.number_of_stops = 0
          /\ q.number_of_stops = 2

\* the waypoint at which stop n of the returned list was emitted
StopWaypoint(n) == route.waypoints[stops_data[n].waypoint_index + 1]

\* C22: the FuelPrice a stop row references has the car's fuel type and the
\* country of the stop row, which is the country of the stop's waypoint
C22_StopPriceMatches ==
    Succeeded =>
        \A s \in PlanStops(plan[1]) :
            /\ PriceRowById(s.fuel_price).fuel_type = car.fuel_type
            /\ PriceRowById(s.fuel_price).country = s.country
            /\ s.country = Upper(StopWaypoint(s.stop_number).country_code)

\* a plan with stops in two countries, one of them tagged in lower case
C22_Witness ==
    /\ Succeeded
    /\ \E a, b \in PlanStops(plan[1]) : a.country # b.country
    /\ \E s \in PlanStops(plan[1]) :
          StopWaypoint(s.stop_number).country_code # s.country

\* the stop rows of the running call's plan, committed or not
OwnStops == { s \in db.stops \cup tx.stops : s.plan = plan[1].id }

\* the FuelPrice the lookup of this call returned for the country of stop n
PriceRead(n) == PriceOf(fuel_prices, stops_data[n].country_code)

RECURSIVE CostAtPricesRead(_)
CostAtPricesRead(n) ==
    IF n = 0 THEN 0
    ELSE CostAtPricesRead(n - 1) + stops_data[n].fuel_to_add_liters * PriceRead(n).price_per_liter

\* C24: once the stops of a call are written, every stop row references the
\* FuelPrice the call's one lookup returned, its total_cost is computed from
\* that price and so is plan.total_cost, whatever rows have been inserted
\* since the lookup
C24_PricesReadOnce ==
    (pc = "return" \/ Succeeded) =>
        /\ Cardinality(OwnStops) = Len(stops_data)
        /\ \A s \in OwnStops :
              /\ s.fuel_price = PriceRead(s.stop_number).id
              /\ s.total_cost
                   = StoreDecimal2(stops_data[s.stop_number].fuel_to_add_liters
                                     * PriceRead(s.stop_number).price_per_liter, MoneyCenti)
        /\ plan[1].total_cost
             = RoundHalfEven(CostAtPricesRead(Len(stops_data)), MoneyCenti) * MoneyCenti

\* the stops are written and the table holds a newer price of a stop's
\* country and fuel type than the one the stop references
C24_Witness ==
    /\ pc = "return"
    /\ \E s \in OwnStops :
          \E r \in fuel_price_rows :
              /\ r.country = s.country
              /\ r.fuel_type = car.fuel_type
              /\ r.scraped_at > PriceRowById(s.fuel_price).scraped_at
              /\ r.id > 10

\* the first failure in the order price resolution, strategy dispatch,
\* strategy construction, waypoint validation; "" when none of them fails
FirstFailure ==
    IF Len(route.countries) = 0 THEN "no_countries"
    ELSE IF MissingCodes # {} THEN "missing_fuel_prices"
    ELSE IF strategy_choice # "min_stops" THEN "strategy_not_implemented"
    ELSE IF reservoir_km * KmScale >= max_range_km(car) THEN "reservoir_ge_max_range"
    ELSE IF reservoir_km < 0 THEN "reservoir_negative"
    ELSE IF Len(route.waypoints) < 2 THEN "lt_2_waypoints"
    ELSE IF TooLongSegments # {} THEN "segment_exceeds_usable_range"
    ELSE ""

\* C25: a call that ends reports the first failure in the order price
\* resolution, strategy dispatch, strategy construction, waypoint validation:
\* a missing price is reported whatever else is wrong with the request
C25_FailureOrder ==
    pc = "done" =>
        /\ FirstFailure # "" =>
              /\ result.exc = "PlanningError"
              /\ result.msg = FirstFailure
        /\ FirstFailure = "" => result.exc # "PlanningError"

\* a missing price is reported although the strategy is not implemented, the
\* reservoir is above the range of the car and the route has one waypoint
C25_Witness ==
    /\ pc = "done"
    /\ MissingPriceRaised
    /\ strategy_choice # "min_stops"
    /\ reservoir_km * KmScale >= max_range_km(car)
    /\ Len(route.waypoints) < 2

\* C26: no step changes the route or the car; the steps of create_plan leave
\* the FuelPrice table as it is, and no row of it is ever changed or removed
C26_InputsUnchanged ==
    [][ /\ route' = route
        /\ car' = car
        /\ fuel_price_rows \subseteq fuel_price_rows'
        /\ pc' # pc => fuel_price_rows' = fuel_price_rows ]_vars

\* a second call on a route with lower-case country codes has succeeded
\* with a stop
C26_Witness ==
    /\ Succeeded
    /\ db_before.plans # {}
    /\ Len(stops_data) >= 1
    /\ route.countries = <<"pl", "de">>

\* C27: plan ids are never reused; a successful call adds exactly its one new
\* plan to the persisted plans and leaves the earlier plans and their stops
\* as they were
C27_OnePlanPerCall ==
    /\ { p.id : p \in db.plans } = 1..Cardinality(db.plans)
    /\ Succeeded =>
          /\ plan[1] \notin db_before.plans
          /\ \A p \in db_before.plans : p.id # plan[1].id
          /\ db.plans = db_before.plans \cup { plan[1] }
          /\ Cardinality(db.plans) = Cardinality(db_before.plans) + 1
          /\ { s \in db.stops : s.plan # plan[1].id } = db_before.stops

\* the same request as an earlier, persisted plan with stops has succeeded
C27_Witness ==
    /\ Succeeded
    /\ \E p \in db_before.plans :
          /\ p.reservoir_km = plan[1].reservoir_km
          /\ p.number_of_stops >= 1
          /\ p.number_of_stops = plan[1].number_of_stops

====
